---- MODULE Spec2Model ----
(***************************************************************************)
(* git-whoknows: the commit indexing loop of TrackedFile::from_path and    *)
(* the per-author aggregation of main (src/main.rs).                       *)
(*                                                                         *)
(* The blame module (generate_blame, parse_blame) is not modelled: the     *)
(* sequence of parsed lines it returns is the input, drawn in Init from    *)
(* every sequence of at most MaxLen line records, well formed or not.      *)
(***************************************************************************)
EXTENDS Integers, Sequences, FiniteSets, TLC

\* ------------------------------------------------------------- bounds ----
MaxLen == 3

\* Commit hashes, author names and author mails that occur in the input.
Hashes == {"abc123", "def456", "0a1b2c"}
Names  == {"Alice", "Bob"}
Mails  == {"alice@x.com", "bob@x.com"}

\* -------------------------------------------------------------- types ----
\* blame::Extra as far as main.rs reads it: extra.author, extra.author_mail.
Extras == [author : Names, author_mail : Mails]

\* Option<Extra>: the empty sequence is None, a one-element sequence is Some.
None == << >>
Some(x) == << x >>
IsSome(o) == Len(o) = 1
Unwrap(o) == o[1]

\* blame::Line as far as main.rs reads it: line.header.hash, line.header.extra.
Lines == [hash : Hashes, extra : {None} \cup {Some(e) : e \in Extras}]

\* All sequences over S of length at most n.
SeqUpTo(S, n) == UNION {[1..k -> S] : k \in 0..n}

\* An empty HashMap.
EmptyMap == [k \in {} |-> 0]

\* HashMap::into_iter: the entries come in an order fixed by the hasher's
\* random state, so any order of the keys can be produced.
IterOrders(S) == {p \in [1..Cardinality(S) -> S] : \A i, j \in 1..Cardinality(S) : p[i] = p[j] => i = j}

VARIABLES
    lines,            \* blame::parse_blame(&txt), the parsed line records
    pos,              \* position of lines.iter() inside from_path
    commits,          \* HashMap<String, Commit> of from_path
    result,           \* how from_path ended
    pc,               \* position of the program
    tracked,          \* tracked_file.commits, as far as not yet consumed
    author_commits,   \* HashMap<Author, Vec<Commit>> of main
    ranked,           \* Vec<(usize, Author, Vec<Commit>)> of main
    printed           \* the report lines written by main

vars == <<lines, pos, commits, result, pc, tracked, author_commits, ranked, printed>>

\* ------------------------------------------------- TrackedFile::from_path
\* Mutant of NewCommit: the first line is counted at the insertion as well.
NewCommitOne(line) ==
    [hash        |-> line.hash,
     author      |-> Unwrap(line.extra).author,
     author_mail |-> Unwrap(line.extra).author_mail,
     num_lines   |-> 1]

\* The Commit built on the first sighting of a hash.
NewCommit(line) ==
    [hash        |-> line.hash,
     author      |-> Unwrap(line.extra).author,
     author_mail |-> Unwrap(line.extra).author_mail,
     num_lines   |-> 0]

\* commits.insert(hash, Commit {..}): adds the entry or replaces the old one.
InsertCommit(map, line) ==
    [h \in DOMAIN map \cup {line.hash} |-> IF h = line.hash THEN NewCommit(line) ELSE map[h]]

\* if let Some(extra) = &line.header.extra { commits.insert(..) }
WithExtra(map, line) ==
    IF IsSome(line.extra) THEN InsertCommit(map, line) ELSE map

\* Mutant of AddLine: num_lines = 1 in place of num_lines += 1.
AddLineAssign(commit) ==
    [commit EXCEPT !.num_lines = 1]

\* Mutant of AddLine: the increment is left out.
AddLineNone(commit) ==
    commit

\* commit.num_lines += 1
AddLine(commit) ==
    [commit EXCEPT !.num_lines = @ + 1]

\* One run of the closure given to lines.iter().for_each.
IndexLine ==
    /\ pc = "index"
    /\ pos <= Len(lines)
    /\ LET line == lines[pos]
           map  == WithExtra(commits, line)
       IN  IF line.hash \in DOMAIN map
           THEN /\ commits' = [map EXCEPT ![line.hash] = AddLine(@)]
                /\ pos' = pos + 1
                /\ UNCHANGED <<pc, result>>
           ELSE \* unreachable!()
                /\ commits' = map
                /\ pc' = "panicked"
                /\ result' = [kind |-> "Panic"]
                /\ UNCHANGED pos
    /\ UNCHANGED <<lines, tracked, author_commits, ranked, printed>>

\* commits.into_iter().map(|(_, v)| v).collect(); Ok(TrackedFile {..})
CollectCommits ==
    /\ pc = "index"
    /\ pos > Len(lines)
    /\ \E order \in IterOrders(DOMAIN commits) :
          tracked' = [i \in 1..Len(order) |-> commits[order[i]]]
    /\ result' = [kind |-> "Ok"]
    /\ pc' = "group"
    /\ UNCHANGED <<lines, pos, commits, author_commits, ranked, printed>>

\* ------------------------------------------------------------------ main
\* Mutant of AuthorNew: the name is stored in both fields.
AuthorNewNameOnly(name, mail) ==
    [name |-> name, mail |-> name]

\* Author::new(name, mail)
AuthorNew(name, mail) ==
    [name |-> name, mail |-> mail]

\* Mutant of PushCommit: insert(author, vec![commit]) replaces the list.
PushCommitReplace(map, author, commit) ==
    [a \in DOMAIN map \cup {author} |-> IF a = author THEN << commit >> ELSE map[a]]

\* author_commits.entry(author).or_default().push(commit)
PushCommit(map, author, commit) ==
    [a \in DOMAIN map \cup {author} |->
        IF a = author
        THEN Append(IF a \in DOMAIN map THEN map[a] ELSE << >>, commit)
        ELSE map[a]]

\* One run of the closure given to tracked_file.commits.into_iter().for_each.
GroupCommit ==
    /\ pc = "group"
    /\ tracked # << >>
    /\ LET commit == Head(tracked)
           author == AuthorNew(commit.author, commit.author_mail)
       IN  author_commits' = PushCommit(author_commits, author, commit)
    /\ tracked' = Tail(tracked)
    /\ UNCHANGED <<lines, pos, commits, result, pc, ranked, printed>>

\* Mutant of SumLines: the commits are counted, not their lines.
SumLinesCount(cs) ==
    Len(cs)

RECURSIVE SumLines(_)
\* commits.iter().map(|commit| commit.num_lines).sum()
SumLines(cs) ==
    IF cs = << >> THEN 0 ELSE Head(cs).num_lines + SumLines(Tail(cs))

\* |(author, commits)| (num_lines, author, commits)
RankEntry(author, cs) ==
    [num_lines |-> SumLines(cs), author |-> author, commits |-> cs]

\* Mutant of ComesAfter: a.0.cmp(&b.0), the ascending order.
ComesAfterAscending(a, b) ==
    a.num_lines > b.num_lines

\* b.0.cmp(&a.0) == Ordering::Greater: a has to come after b.
ComesAfter(a, b) ==
    b.num_lines > a.num_lines

RECURSIVE InsertSorted(_, _)
\* Puts x behind every element of the sorted s that it does not precede.
InsertSorted(s, x) ==
    IF s = << >> THEN << x >>
    ELSE IF ComesAfter(Head(s), x) THEN << x >> \o s
    ELSE << Head(s) >> \o InsertSorted(Tail(s), x)

RECURSIVE SortBy(_)
\* slice::sort_by: a stable sort, equal elements keep their order.
SortBy(s) ==
    IF s = << >> THEN << >>
    ELSE InsertSorted(SortBy(SubSeq(s, 1, Len(s) - 1)), s[Len(s)])

\* author_commits.into_iter().map(..).collect()
CollectAuthors ==
    /\ pc = "group"
    /\ tracked = << >>
    /\ \E order \in IterOrders(DOMAIN author_commits) :
          ranked' = [i \in 1..Len(order) |-> RankEntry(order[i], author_commits[order[i]])]
    /\ pc' = "sort"
    /\ UNCHANGED <<lines, pos, commits, result, tracked, author_commits, printed>>

\* author_commits.sort_by(|a, b| b.0.cmp(&a.0))
SortAuthors ==
    /\ pc = "sort"
    /\ ranked' = SortBy(ranked)
    /\ pc' = "print"
    /\ UNCHANGED <<lines, pos, commits, result, tracked, author_commits, printed>>

\* "  {} {}: Lines: {} Count: {}"
ReportLine(entry) ==
    [name  |-> entry.author.name,
     mail  |-> entry.author.mail,
     lines |-> entry.num_lines,
     count |-> Len(entry.commits)]

\* author_commits.iter().for_each(|..| println!(..)); Ok(())
PrintReport ==
    /\ pc = "print"
    /\ printed' = [i \in 1..Len(ranked) |-> ReportLine(ranked[i])]
    /\ pc' = "done"
    /\ UNCHANGED <<lines, pos, commits, result, tracked, author_commits, ranked>>

Init ==
    /\ lines \in SeqUpTo(Lines, MaxLen)
    /\ pos = 1
    /\ commits = EmptyMap
    /\ result = [kind |-> "None"]
    /\ pc = "index"
    /\ tracked = << >>
    /\ author_commits = EmptyMap
    /\ ranked = << >>
    /\ printed = << >>

Next ==
    \/ IndexLine
    \/ CollectCommits
    \/ GroupCommit
    \/ CollectAuthors
    \/ SortAuthors
    \/ PrintReport

Spec == Init /\ [][Next]_vars

\* ------------------------------------------------------------ properties
\* Number of the first n line records that carry hash h.
CountHash(h, n) ==
    Cardinality({i \in 1..n : lines[i].hash = h})

\* The first-sighting invariant of the record stream: extra is present
\* exactly on the first record of each hash.
FirstSighting ==
    \A i \in 1..Len(lines) :
        IsSome(lines[i].extra) <=> (\A j \in 1..(i - 1) : lines[j].hash # lines[i].hash)

RECURSIVE SumOver(_, _)
\* Sum of num_lines over the commits of map whose hash is in S.
SumOver(map, S) ==
    IF S = {} THEN 0
    ELSE LET h == CHOOSE x \in S : TRUE
         IN  map[h].num_lines + SumOver(map, S \ {h})

\* The indexing loop has consumed every record without aborting.
LoopDone == pc # "panicked" /\ pos > Len(lines)

\* from_path has returned and main has not yet consumed any commit.
FreshResult == pc = "group" /\ author_commits = EmptyMap

\* The ranked list exists (collected; sorted from "print" on).
Collected == pc \in {"sort", "print", "done"}
Sorted == pc \in {"print", "done"}

\* The author pair of a commit.
AuthorOf(c) == [name |-> c.author, mail |-> c.author_mail]

\* The places (entry, index) of the ranked list that hold commit c.
PlacesOf(c) ==
    {<<i, j>> \in (1..Len(ranked)) \X (1..Cardinality(Hashes)) :
        j <= Len(ranked[i].commits) /\ ranked[i].commits[j] = c}

\* C1: for a record sequence with the first-sighting invariant, once the
\* indexing loop has consumed it, every Commit of the table, and every Commit
\* of the TrackedFile made from it, has num_lines equal to the number of
\* records carrying its hash.
C1_NumLinesCountsRecords ==
    (FirstSighting /\ LoopDone) =>
        /\ \A h \in DOMAIN commits : commits[h].num_lines = CountHash(h, Len(lines))
        /\ \A i \in 1..Len(tracked) : tracked[i].num_lines = CountHash(tracked[i].hash, Len(lines))

C1_Witness ==
    /\ FirstSighting
    /\ FreshResult
    /\ Len(tracked) = 2
    /\ \E i \in 1..Len(tracked) : tracked[i].num_lines = 2

\* C2: a record without extra whose hash no earlier record carried makes
\* from_path end with the typed error MissingMetadata naming that hash, and
\* no TrackedFile is produced.
C2_MissingMetadataIsTypedError ==
    (/\ pc # "index"
     /\ pos <= Len(lines)
     /\ ~IsSome(lines[pos].extra)
     /\ \A j \in 1..(pos - 1) : lines[j].hash # lines[pos].hash) =>
        /\ result = [kind |-> "Err", error |-> "MissingMetadata", hash |-> lines[pos].hash]
        /\ tracked = << >>

\* C3: a record with extra whose hash an earlier record already carried makes
\* from_path end with the error DuplicateMetadata; the loop never gets past
\* such a record.
C3_DuplicateMetadataIsError ==
    \A i \in 1..Len(lines) :
        (/\ IsSome(lines[i].extra)
         /\ \E j \in 1..(i - 1) : lines[j].hash = lines[i].hash
         /\ pos > i) =>
            result = [kind |-> "Err", error |-> "DuplicateMetadata", hash |-> lines[i].hash]

\* C4: for a record sequence with the first-sighting invariant, the sum of
\* num_lines over the Commits of the resulting TrackedFile is the number of
\* line records the indexing loop consumed.
C4_SumOfNumLinesIsRecordCount ==
    /\ (FirstSighting /\ LoopDone) => SumOver(commits, DOMAIN commits) = Len(lines)
    /\ (FirstSighting /\ FreshResult) => SumLines(tracked) = Len(lines)

C4_Witness ==
    /\ FirstSighting
    /\ FreshResult
    /\ Len(lines) = 3
    /\ Len(tracked) = 2

RECURSIVE SumRanked(_)
\* Sum of the line totals of a ranked list.
SumRanked(r) ==
    IF r = << >> THEN 0 ELSE Head(r).num_lines + SumRanked(Tail(r))

\* C5: aggregation conserves lines and drops nothing: the per-author totals
\* add up to the sum of num_lines of the input commits, every input commit
\* is in exactly one place of exactly one author's list, and every author of
\* an input commit has an entry.
C5_AggregationConserves ==
    Collected =>
        /\ SumRanked(ranked) = SumOver(commits, DOMAIN commits)
        /\ \A h \in DOMAIN commits : Cardinality(PlacesOf(commits[h])) = 1
        /\ \A h \in DOMAIN commits : \E i \in 1..Len(ranked) : ranked[i].author = AuthorOf(commits[h])

C5_Witness ==
    /\ pc = "done"
    /\ Len(ranked) = 2
    /\ Cardinality(DOMAIN commits) = 3
    /\ SumRanked(ranked) = 3

\* C6: commits are grouped by the pair (author name, author mail): each pair
\* has exactly one entry, an entry holds exactly the commits of its pair
\* whatever their hashes, and its total is the sum of their num_lines.
C6_GroupedByNameAndMail ==
    Collected =>
        /\ \A i, j \in 1..Len(ranked) : ranked[i].author = ranked[j].author => i = j
        /\ \A i \in 1..Len(ranked) :
              /\ {ranked[i].commits[k] : k \in 1..Len(ranked[i].commits)}
                    = {commits[h] : h \in {g \in DOMAIN commits : AuthorOf(commits[g]) = ranked[i].author}}
              /\ ranked[i].num_lines
                    = SumOver(commits, {g \in DOMAIN commits : AuthorOf(commits[g]) = ranked[i].author})
        /\ \A h \in DOMAIN commits : \E i \in 1..Len(ranked) : ranked[i].author = AuthorOf(commits[h])

\* Two hashes of one author in one entry, and a second entry of the same
\* name with another mail.
C6_Witness ==
    /\ pc = "done"
    /\ Len(ranked) = 2
    /\ Len(ranked[1].commits) = 2
    /\ ranked[1].commits[1].hash # ranked[1].commits[2].hash
    /\ ranked[1].author.name = ranked[2].author.name
    /\ ranked[1].author.mail # ranked[2].author.mail

\* C7: the ranked list is ordered by non-increasing total lines, and so is
\* the printed report.
C7_RankedNonIncreasing ==
    /\ Sorted => \A i \in 1..(Len(ranked) - 1) : ranked[i].num_lines >= ranked[i + 1].num_lines
    /\ \A i \in 1..(Len(printed) - 1) : printed[i].lines >= printed[i + 1].lines

C7_Witness ==
    /\ pc = "done"
    /\ Len(printed) = 2
    /\ printed[1].lines = 2
    /\ printed[2].lines = 1

\* The ascending order of the author names and mails of the input.
NameOrder == <<"Alice", "Bob">>
MailOrder == <<"alice@x.com", "bob@x.com">>
RankIn(order, s) == CHOOSE i \in 1..Len(order) : order[i] = s

\* Author a precedes author b by name, then by mail.
AuthorBefore(a, b) ==
    \/ RankIn(NameOrder, a.name) < RankIn(NameOrder, b.name)
    \/ a.name = b.name /\ RankIn(MailOrder, a.mail) < RankIn(MailOrder, b.mail)

\* C8: the order of the ranked list is a function of the commit set alone:
\* authors with equal total lines are ordered by author name, then mail,
\* ascending, whatever the iteration order of the commit and author tables.
C8_TiesOrderedByNameThenMail ==
    Sorted =>
        \A i \in 1..(Len(ranked) - 1) :
            ranked[i].num_lines = ranked[i + 1].num_lines =>
                AuthorBefore(ranked[i].author, ranked[i + 1].author)

\* The record streams of the end-to-end scenario: two records of abc123, the
\* first with Alice's metadata, and one record of def456 with Bob's.
AliceFirst == [hash |-> "abc123", extra |-> Some([author |-> "Alice", author_mail |-> "alice@x.com"])]
AliceAgain == [hash |-> "abc123", extra |-> None]
BobFirst   == [hash |-> "def456", extra |-> Some([author |-> "Bob", author_mail |-> "bob@x.com"])]
Scenario ==
    {<<AliceFirst, AliceAgain, BobFirst>>,
     <<AliceFirst, BobFirst, AliceAgain>>,
     <<BobFirst, AliceFirst, AliceAgain>>}

\* C9: end to end, for every stream of the scenario the report is exactly
\* Alice with 2 lines and 1 commit, then Bob with 1 line and 1 commit.
C9_AliceThenBob ==
    (lines \in Scenario /\ pc = "done") =>
        printed = << [name |-> "Alice", mail |-> "alice@x.com", lines |-> 2, count |-> 1],
                     [name |-> "Bob", mail |-> "bob@x.com", lines |-> 1, count |-> 1] >>

C9_Witness ==
    /\ lines = <<BobFirst, AliceFirst, AliceAgain>>
    /\ pc = "done"
    /\ Len(printed) = 2

\* C10: after each record the indexing loop has processed, for any record
\* sequence, the commit table holds exactly one Commit per hash seen so far,
\* under its own hash, and every Commit in it has num_lines >= 1.
C10_TableAfterEachRecord ==
    /\ DOMAIN commits = {lines[i].hash : i \in 1..(pos - 1)}
    /\ \A h \in DOMAIN commits : commits[h].hash = h /\ commits[h].num_lines >= 1

\* The loop has just processed metadata repeated for a hash already seen.
C10_Witness ==
    /\ pc = "index"
    /\ pos = 3
    /\ lines[1].hash = lines[2].hash
    /\ IsSome(lines[1].extra)
    /\ IsSome(lines[2].extra)

====
